---- MODULE Spec2Model ----
(***************************************************************************)
(* Verification model of the EVICT BLAST-driven contig classification,     *)
(* summary and orientation scripts: bin/genotype_prediction.py,            *)
(* bin/html_report.py, bin/blast_summary.py and                            *)
(* bin/reverse_complement_contigs.py.                                      *)
(*                                                                         *)
(* Python values are modelled as follows.  A DataFrame is a sequence of    *)
(* row records plus the set of its column names.  A missing string cell    *)
(* (None) is NoneStr, a numeric cell is a record that is a number or NaN.  *)
(* A call that can raise returns a record [kind, val]: kind "ok" with the  *)
(* value, or kind "raise" with the name of the exception class.  Strings   *)
(* that the code takes apart (query ids, numeric fields) are sequences of  *)
(* tokens, so that splitting and parsing are computed, not assumed.        *)
(* Percent identity, bit score and coverage are integers; a median is kept *)
(* doubled.  Non-ASCII letters of message strings are transliterated.      *)
(***************************************************************************)
EXTENDS Integers, Sequences, FiniteSets, TLC

VARIABLES
    s_df,        \* suggest_genotype: the argument df
    s_args,      \* suggest_genotype: the three thresholds
    s_out,       \* suggest_genotype: what the call produced, or Pending
    f_table,     \* quality filter: the hit table as read from the file
    f_classify,  \* quality filter of genotype_prediction.py: its outcome
    f_report,    \* quality filter of html_report.py: its outcome
    c_blast,     \* classification: the BLAST file of the run started last
    c_last,      \* classification: the run started last (0: none yet)
    c_pc,        \* classification: where each run of main() stands
    c_genotype,  \* classification: main()'s local variable genotype, per run
    c_header,    \* classification: main()'s local variable header, per run
    c_out,       \* classification: the output CSV file
    r_input,     \* report: the BLAST file and the filtered FASTA file
    r_pc,        \* report: where main() stands
    r_file,      \* report: the HTML report file
    r_writes,    \* report: how many times the report file was written
    v_blast,     \* orientation: the lines of the BLAST file, each a list of fields
    v_out,       \* orientation: what get_reverse_contigs produced, or Pending
    p_fasta,     \* process_fasta: the lines of the input FASTA file
    p_reverse,   \* process_fasta: the argument reverse_set
    p_pos,       \* process_fasta: how many input lines the loop has read
    p_header,    \* process_fasta: the local variable header (NoHeader: None)
    p_seq_lines, \* process_fasta: the local variable seq_lines
    p_out,       \* process_fasta: the lines written to the output file
    p_pc,        \* process_fasta: where the function stands
    k_seq,       \* reverse_complement: the argument seq
    k_once,      \* reverse_complement: the result of one call, or Pending
    k_twice,     \* reverse_complement: the result of a call on that result
    b_file,      \* summarize_blast: the lines of the BLAST file
    b_out,       \* summarize_blast: the summary written, or Pending
    a_argv,      \* command line of genotype_prediction.py: its options
    a_pc         \* command line of genotype_prediction.py: where parsing stands

suggestVars == <<s_df, s_args, s_out>>
filterVars == <<f_table, f_classify, f_report>>
classifyVars == <<c_blast, c_last, c_pc, c_genotype, c_header, c_out>>

reportVars == <<r_input, r_pc, r_file, r_writes>>
reverseVars == <<v_blast, v_out>>
fastaVars == <<p_fasta, p_reverse, p_pos, p_header, p_seq_lines, p_out, p_pc>>
revcompVars == <<k_seq, k_once, k_twice>>
summaryVars == <<b_file, b_out>>
cliVars == <<a_argv, a_pc>>

vars == <<s_df, s_args, s_out, f_table, f_classify, f_report,
          c_blast, c_last, c_pc, c_genotype, c_header, c_out,
          r_input, r_pc, r_file, r_writes, v_blast, v_out,
          p_fasta, p_reverse, p_pos, p_header, p_seq_lines, p_out, p_pc,
          k_seq, k_once, k_twice, b_file, b_out, a_argv, a_pc>>

\* what the steps of one script leave alone: the state of the other scripts
notSuggestVars == <<filterVars, classifyVars, reportVars, reverseVars,
                    fastaVars, revcompVars, summaryVars, cliVars>>
notFilterVars == <<suggestVars, classifyVars, reportVars, reverseVars,
                   fastaVars, revcompVars, summaryVars, cliVars>>
notClassifyVars == <<suggestVars, filterVars, reportVars, reverseVars,
                     fastaVars, revcompVars, summaryVars, cliVars>>
notReportVars == <<suggestVars, filterVars, classifyVars, reverseVars,
                   fastaVars, revcompVars, summaryVars, cliVars>>
notReverseVars == <<suggestVars, filterVars, classifyVars, reportVars,
                    fastaVars, revcompVars, summaryVars, cliVars>>
notFastaVars == <<suggestVars, filterVars, classifyVars, reportVars,
                  reverseVars, revcompVars, summaryVars, cliVars>>
notRevcompVars == <<suggestVars, filterVars, classifyVars, reportVars,
                    reverseVars, fastaVars, summaryVars, cliVars>>
notSummaryVars == <<suggestVars, filterVars, classifyVars, reportVars,
                    reverseVars, fastaVars, revcompVars, cliVars>>

----------------------------------------------------------------------------
(* Bounds *)

MaxRows == 3         \* rows of a table handed to suggest_genotype
MaxHits == 2         \* rows of a BLAST hit table read from a file
MaxRuns == 2         \* invocations of the classification command
MaxDataRows == 2     \* data lines of the BLAST file read by get_reverse_contigs
MaxFastaLines == 4   \* lines of the FASTA file read by process_fasta
MaxSeqLen == 3       \* characters of a sequence handed to reverse_complement
MaxSummaryLines == 3 \* lines of the BLAST file read by summarize_blast

----------------------------------------------------------------------------
(* Python values *)

Pending == [kind |-> "pending", val |-> ""]
Ok(v) == [kind |-> "ok", val |-> v]
Raise(e) == [kind |-> "raise", val |-> e]

Max2(a, b) == IF a >= b THEN a ELSE b

SeqsUpTo(S, n) == UNION {[1..k -> S] : k \in 0..n}

----------------------------------------------------------------------------
(* bin/genotype_prediction.py: suggest_genotype *)

MANUAL == "Var god bedom manuellt."

Labels == {"CVA6", "EVD68"}
\* groupby sorts its keys: the labels in ascending order
LabelOrder == <<"CVA6", "EVD68">>

PidentVals == {89, 90, 95}
BitscoreVals == {399, 400}
SuggestRow == [pident : PidentVals, bitscore : BitscoreVals, scomname : Labels]

AllColumns == {"pident", "bitscore", "scomname"}

\* threshold arguments tried
MinRowsVals == {1, 2}
MinIdentityVals == {90, 95}
MinBitscoreVals == {400}

\* df[col] of every row, in row order
Column(rows, col) == [i \in 1..Len(rows) |-> rows[i][col]]

\* Series.max()
RECURSIVE SeriesMax(_)
SeriesMax(vals) ==
    IF Len(vals) = 1 THEN vals[1]
    ELSE Max2(vals[1], SeriesMax(Tail(vals)))

\* Series.idxmax(): position of the first occurrence of the maximum
RECURSIVE idxmaxFrom(_, _, _)
idxmaxFrom(vals, i, best) ==
    IF i > Len(vals) THEN best
    ELSE idxmaxFrom(vals, i + 1, IF vals[i] > vals[best] THEN i ELSE best)
idxmax_first_position(vals) == 1
idxmax(vals) == idxmaxFrom(vals, 2, 1)

\* the values of one group, in row order
GroupValues(rows, label, col) ==
    Column(SelectSeq(rows, LAMBDA r : r.scomname = label), col)

\* ascending insertion sort
RECURSIVE Insert(_, _)
Insert(sorted, v) ==
    IF sorted = <<>> THEN <<v>>
    ELSE IF v <= Head(sorted) THEN <<v>> \o sorted
    ELSE <<Head(sorted)>> \o Insert(Tail(sorted), v)
RECURSIVE Sort(_)
Sort(vals) == IF vals = <<>> THEN <<>> ELSE Insert(Sort(Tail(vals)), Head(vals))

\* Series.median(), doubled so that the mean of the two central values of
\* an even-sized group stays an integer
median2_lower_middle(vals) ==
    LET s == Sort(vals)
        n == Len(s)
    IN  2 * s[(n + 1) \div 2]
median2(vals) ==
    LET s == Sort(vals)
        n == Len(s)
    IN  IF n % 2 = 1 THEN 2 * s[(n + 1) \div 2]
        ELSE s[n \div 2] + s[n \div 2 + 1]

\* the index of df.groupby('scomname')[col].median(): the labels that occur,
\* ascending
GroupKeys(rows) ==
    SelectSeq(LabelOrder, LAMBDA l : \E i \in 1..Len(rows) : rows[i].scomname = l)

\* df.groupby('scomname')[col].median().idxmax()
highest_median(rows, col) ==
    LET keys == GroupKeys(rows)
        meds == [k \in 1..Len(keys) |-> median2(GroupValues(rows, keys[k], col))]
    IN  keys[idxmax(meds)]

\* df['scomname'].value_counts().get(label, 0)
species_count(rows, label) ==
    Len(SelectSeq(rows, LAMBDA r : r.scomname = label))

\* the condition of the if statement
criteria_no_median(rows, min_rows, min_identity, min_bitscore) ==
    LET max_pident == rows[idxmax(Column(rows, "pident"))]
        max_bitscore == rows[idxmax(Column(rows, "bitscore"))]
    IN  /\ max_pident.scomname = max_bitscore.scomname
        /\ species_count(rows, max_pident.scomname) >= min_rows
        /\ SeriesMax(Column(rows, "pident")) >= min_identity
        /\ SeriesMax(Column(rows, "bitscore")) >= min_bitscore

criteria(rows, min_rows, min_identity, min_bitscore) ==
    LET max_pident == rows[idxmax(Column(rows, "pident"))]
        max_bitscore == rows[idxmax(Column(rows, "bitscore"))]
    IN  /\ max_pident.scomname = max_bitscore.scomname
        /\ species_count(rows, max_pident.scomname) >= min_rows
        /\ SeriesMax(Column(rows, "pident")) >= min_identity
        /\ SeriesMax(Column(rows, "bitscore")) >= min_bitscore
        /\ highest_median(rows, "pident") = max_pident.scomname
        /\ highest_median(rows, "bitscore") = max_bitscore.scomname

\* the body of the try block
suggest_try(df, min_rows, min_identity, min_bitscore) ==
    IF ~({"pident", "bitscore"} \subseteq df.columns) THEN Raise("KeyError")
    ELSE IF df.rows = <<>> THEN Raise("ValueError")
    ELSE IF "scomname" \notin df.columns THEN Raise("KeyError")
    ELSE IF criteria(df.rows, min_rows, min_identity, min_bitscore)
         THEN Ok(df.rows[idxmax(Column(df.rows, "pident"))].scomname)
         ELSE Ok(MANUAL)

suggest_genotype_no_except(df, min_rows, min_identity, min_bitscore) ==
    suggest_try(df, min_rows, min_identity, min_bitscore)

\* try / except Exception / return suggestion
suggest_genotype(df, min_rows, min_identity, min_bitscore) ==
    LET r == suggest_try(df, min_rows, min_identity, min_bitscore)
    IN  IF r.kind = "raise" THEN Ok(MANUAL) ELSE r

----------------------------------------------------------------------------
(* pandas string and numeric helpers used by the quality filter *)

\* a missing string cell (None / NaN in an object column)
NoneStr == <<"None">>
\* a numeric cell: a number or NaN
Num(v) == [nan |-> FALSE, v |-> v]
NumNaN == [nan |-> TRUE, v |-> 0]

Digits == {"0", "1", "2", "3", "4", "5", "6", "7", "8", "9"}
DigitValue(d) ==
    CASE d = "0" -> 0 [] d = "1" -> 1 [] d = "2" -> 2 [] d = "3" -> 3
      [] d = "4" -> 4 [] d = "5" -> 5 [] d = "6" -> 6 [] d = "7" -> 7
      [] d = "8" -> 8 [] d = "9" -> 9

RECURSIVE DecimalValue(_)
DecimalValue(str) ==
    IF str = <<>> THEN 0
    ELSE 10 * DecimalValue(SubSeq(str, 1, Len(str) - 1)) + DigitValue(str[Len(str)])

IsNumeric(str) == str # <<>> /\ \A i \in 1..Len(str) : str[i] \in Digits

\* pd.to_numeric(series, errors="coerce") on one cell
to_numeric_coerce(cell) ==
    IF cell # NoneStr /\ IsNumeric(cell) THEN Num(DecimalValue(cell)) ELSE NumNaN

\* pd.to_numeric(series) on one cell: a missing or empty cell becomes NaN,
\* any other unparsable string raises ValueError
to_numeric_raises(cell) == cell # NoneStr /\ cell # <<>> /\ ~IsNumeric(cell)

\* str.split(delim) of one string: the list of its parts
RECURSIVE str_split(_, _)
str_split(str, delim) ==
    IF \A i \in 1..Len(str) : str[i] # delim THEN <<str>>
    ELSE LET i == CHOOSE k \in 1..Len(str) :
                      str[k] = delim /\ \A j \in 1..(k - 1) : str[j] # delim
         IN  <<SubSeq(str, 1, i - 1)>> \o str_split(SubSeq(str, i + 1, Len(str)), delim)

RECURSIVE MaxLen(_)
MaxLen(lists) ==
    IF lists = <<>> THEN 0 ELSE Max2(Len(Head(lists)), MaxLen(Tail(lists)))

\* Series.str.split(delim, expand=True): a frame as wide as the longest list
\* of parts; shorter rows are padded with None, a missing cell gives a row
\* of missing cells
split_expand(col, delim) ==
    LET parts == [i \in 1..Len(col) |->
                     IF col[i] = NoneStr THEN <<NoneStr>> ELSE str_split(col[i], delim)]
        width == MaxLen(parts)
    IN  [width |-> width,
         cells |-> [i \in 1..Len(col) |->
                       [k \in 1..width |->
                           IF col[i] = NoneStr THEN NoneStr
                           ELSE IF k <= Len(parts[i]) THEN parts[i][k]
                           ELSE NoneStr]]]

----------------------------------------------------------------------------
(* The quality filter: genotype_prediction.py main, html_report.py         *)
(* generate_normal_report_data                                             *)

MIN_QLEN == 200
MIN_COVERAGE == 50

WithDecoded(row, contig, coverage) ==
    [qseqid |-> row.qseqid, qlen |-> row.qlen, pident |-> row.pident,
     bitscore |-> row.bitscore, scomname |-> row.scomname,
     contig |-> contig, coverage |-> coverage]

WithoutQseqid(row, contig, coverage) ==
    [qlen |-> row.qlen, pident |-> row.pident,
     bitscore |-> row.bitscore, scomname |-> row.scomname,
     contig |-> contig, coverage |-> coverage]

\* df.loc[df["qlen"] > 200] then df.loc[df["coverage"] > 50]
loc_thresholds_inclusive(rows) ==
    SelectSeq(SelectSeq(rows, LAMBDA r : r.qlen >= MIN_QLEN),
              LAMBDA r : ~r.coverage.nan /\ r.coverage.v > MIN_COVERAGE)

loc_thresholds(rows) ==
    SelectSeq(SelectSeq(rows, LAMBDA r : r.qlen > MIN_QLEN),
              LAMBDA r : ~r.coverage.nan /\ r.coverage.v > MIN_COVERAGE)

\* genotype_prediction.py lines 70-75.  Assigning a frame that is not two
\* columns wide to two columns raises ValueError.
filter_classify(rows) ==
    LET s1 == split_expand(Column(rows, "qseqid"), "_length_")
    IN  IF s1.width # 2 THEN Raise("ValueError")
        ELSE
        LET temp1 == [i \in 1..Len(rows) |-> s1.cells[i][2]]
            s2 == split_expand(temp1, "_cov_")
        IN  IF s2.width # 2 THEN Raise("ValueError")
            ELSE
            LET df == [i \in 1..Len(rows) |->
                          WithDecoded(rows[i], s1.cells[i][1],
                                      to_numeric_coerce(s2.cells[i][2]))]
            IN  Ok(loc_thresholds(df))

\* html_report.py lines 614-625: the same steps, but qseqid is dropped and
\* to_numeric is called without errors="coerce"
filter_report(rows) ==
    LET s1 == split_expand(Column(rows, "qseqid"), "_length_")
    IN  IF s1.width # 2 THEN Raise("ValueError")
        ELSE
        LET temp1 == [i \in 1..Len(rows) |-> s1.cells[i][2]]
            s2 == split_expand(temp1, "_cov_")
        IN  IF s2.width # 2 THEN Raise("ValueError")
            ELSE IF \E i \in 1..Len(rows) : to_numeric_raises(s2.cells[i][2])
            THEN Raise("ValueError")
            ELSE
            LET df == [i \in 1..Len(rows) |->
                          WithoutQseqid(rows[i], s1.cells[i][1],
                                        to_numeric_coerce(s2.cells[i][2]))]
            IN  Ok(loc_thresholds(df))

----------------------------------------------------------------------------
(* Hit tables within the bounds *)

QseqIds ==
    { <<"NODE_1", "_length_", "7", "4", "0", "0", "_cov_", "5", "1">>,
      <<"NODE_2", "_length_", "3", "0", "0", "_cov_", "5", "0">>,
      <<"NODE_3", "_length_", "3", "0", "0", "_cov_", "n", "a">>,
      <<"NODE_4", "_length_", "3", "0", "0">>,
      <<"NODE_5">>,
      <<"NODE_6", "_length_", "3", "0", "0", "_length_", "3", "0", "0", "_cov_", "5", "1">>,
      <<"NODE_7", "_length_", "3", "0", "0", "_cov_", "5", "1", "_cov_", "5", "1">> }

QlenVals == {200, 201}

HitRow == [qseqid : QseqIds, qlen : QlenVals, pident : {95}, bitscore : {400},
           scomname : Labels]

HitTables == SeqsUpTo(HitRow, MaxHits)

\* the tables the classification runs read: a decodable query id, one
\* without "_cov_", one with "_length_" twice
ClassifyQseqIds ==
    { <<"NODE_1", "_length_", "7", "4", "0", "0", "_cov_", "5", "1">>,
      <<"NODE_4", "_length_", "3", "0", "0">>,
      <<"NODE_6", "_length_", "3", "0", "0", "_length_", "3", "0", "0", "_cov_", "5", "1">> }

ClassifyRow == [qseqid : ClassifyQseqIds, qlen : QlenVals, pident : {95},
                bitscore : {400}, scomname : {"CVA6"}]

ClassifyTables == SeqsUpTo(ClassifyRow, MaxHits)

----------------------------------------------------------------------------
(* bin/genotype_prediction.py: main *)

NOVALID == "Ingen giltig contig (for kort/lag tackning)"

Runs == 1..MaxRuns

\* the command-line thresholds of a run
ClassifyArgs == [min_rows : {2}, min_identity : {90}, min_bitscore : {400}]

\* the BLAST file named by --blast-file: absent, or a table with a header line
BlastFiles ==
    {[exists |-> FALSE, table |-> <<>>]} \cup
    {[exists |-> TRUE, table |-> t] : t \in ClassifyTables}

FilteredColumns == AllColumns \cup {"qseqid", "qlen", "contig", "coverage"}

\* df["scomname"].nunique()
nunique(rows, col) == Cardinality({rows[i][col] : i \in 1..Len(rows)})

\* lines 67-86 with the empty filtered set handed to suggest_genotype
genotype_of_always_suggest(table, a) ==
    LET f == filter_classify(table)
    IN  IF f.kind = "raise" THEN f
        ELSE suggest_genotype([rows |-> f.val, columns |-> FilteredColumns],
                              a.min_rows, a.min_identity, a.min_bitscore)

\* lines 67-86: read the table, filter it, choose the genotype text
genotype_of(table, a) ==
    LET f == filter_classify(table)
    IN  IF f.kind = "raise" THEN f
        ELSE IF f.val = <<>> \/ nunique(f.val, "scomname") = 0 THEN Ok(NOVALID)
        ELSE suggest_genotype([rows |-> f.val, columns |-> FilteredColumns],
                              a.min_rows, a.min_identity, a.min_bitscore)

\* lines of the output CSV
HEADER == [kind |-> "header", ticket |-> 0, sample |-> 0, genotype |-> ""]
OutRow(r, g) == [kind |-> "row", ticket |-> r, sample |-> r, genotype |-> g]

Terminated == {"done", "exit1", "raised"}

\* one run after the other: a run starts when every earlier run has ended
Sequential(r) == \A q \in Runs : q < r => c_pc[q] \in Terminated

\* lines 59-86: sys.exit(1) when the BLAST file is missing; otherwise the
\* genotype text is computed, or the filter's error ends the run
ReadAndClassifyAnyTime(r) ==
    /\ c_pc[r] = "idle"
    /\ \E file \in BlastFiles, a \in ClassifyArgs :
          /\ c_blast' = file
          /\ c_last' = r
          /\ IF ~file.exists
             THEN c_pc' = [c_pc EXCEPT ![r] = "exit1"] /\ UNCHANGED c_genotype
             ELSE LET g == genotype_of(file.table, a)
                  IN  IF g.kind = "raise"
                      THEN c_pc' = [c_pc EXCEPT ![r] = "raised"] /\ UNCHANGED c_genotype
                      ELSE /\ c_pc' = [c_pc EXCEPT ![r] = "computed"]
                           /\ c_genotype' = [c_genotype EXCEPT ![r] = g.val]
    /\ UNCHANGED <<c_header, c_out, notClassifyVars>>

\* lines 59-86 with the existence test left out: a missing file raises in
\* read_csv after the output has been created
ReadAndClassify_no_exists_check(r) ==
    /\ c_pc[r] = "idle"
    /\ Sequential(r)
    /\ \E file \in BlastFiles, a \in ClassifyArgs :
          /\ c_blast' = file
          /\ c_last' = r
          /\ IF ~file.exists
             THEN /\ c_pc' = [c_pc EXCEPT ![r] = "raised"]
                  /\ c_out' = [c_out EXCEPT !.exists = TRUE]
                  /\ UNCHANGED c_genotype
             ELSE LET g == genotype_of(file.table, a)
                  IN  /\ IF g.kind = "raise"
                         THEN c_pc' = [c_pc EXCEPT ![r] = "raised"] /\ UNCHANGED c_genotype
                         ELSE /\ c_pc' = [c_pc EXCEPT ![r] = "computed"]
                              /\ c_genotype' = [c_genotype EXCEPT ![r] = g.val]
                      /\ UNCHANGED c_out
    /\ UNCHANGED <<c_header, notClassifyVars>>

\* lines 59-86 of a run started after every earlier run has ended
ReadAndClassify(r) == Sequential(r) /\ ReadAndClassifyAnyTime(r)

\* line 95 with the header requested by every run
CheckOutput_always_header(r) ==
    /\ c_pc[r] = "computed"
    /\ c_header' = [c_header EXCEPT ![r] = TRUE]
    /\ c_pc' = [c_pc EXCEPT ![r] = "checked"]
    /\ UNCHANGED <<c_blast, c_last, c_genotype, c_out, notClassifyVars>>

\* line 95: header = not os.path.exists(args.output)
CheckOutput(r) ==
    /\ c_pc[r] = "computed"
    /\ c_header' = [c_header EXCEPT ![r] = ~c_out.exists]
    /\ c_pc' = [c_pc EXCEPT ![r] = "checked"]
    /\ UNCHANGED <<c_blast, c_last, c_genotype, c_out, notClassifyVars>>

\* line 96 skipped when no contig qualified
AppendRow_skips_no_valid(r) ==
    /\ c_pc[r] = "checked"
    /\ c_out' = IF c_genotype[r] = NOVALID THEN c_out
                ELSE [exists |-> TRUE,
                      lines |-> c_out.lines
                                \o (IF c_header[r] THEN <<HEADER>> ELSE <<>>)
                                \o <<OutRow(r, c_genotype[r])>>]
    /\ c_pc' = [c_pc EXCEPT ![r] = "done"]
    /\ UNCHANGED <<c_blast, c_last, c_genotype, c_header, notClassifyVars>>

\* line 96: to_csv(mode="a", header=header) appends the header line when
\* asked to, then the row
AppendRow(r) ==
    /\ c_pc[r] = "checked"
    /\ c_out' = [exists |-> TRUE,
                 lines |-> c_out.lines
                           \o (IF c_header[r] THEN <<HEADER>> ELSE <<>>)
                           \o <<OutRow(r, c_genotype[r])>>]
    /\ c_pc' = [c_pc EXCEPT ![r] = "done"]
    /\ UNCHANGED <<c_blast, c_last, c_genotype, c_header, notClassifyVars>>

----------------------------------------------------------------------------
(* bin/html_report.py: main *)

\* the report file: absent, or the values the template was rendered with
NoReport == [exists |-> FALSE, is_error_report |-> FALSE, plotted |-> FALSE,
             rows |-> <<>>]
Report(is_error, data) ==
    [exists |-> TRUE, is_error_report |-> is_error, plotted |-> data.plotted,
     rows |-> data.rows]

\* the BLAST file (absent; or a table whose header line names the expected
\* columns or not) and whether the filtered FASTA file exists
ReportInputs ==
    {[exists |-> FALSE, columns |-> FALSE, table |-> <<>>, fasta |-> FALSE]} \cup
    [exists : {TRUE}, columns : BOOLEAN, table : HitTables, fasta : BOOLEAN]

\* lines 604-843: the data of the normal report, or the exception raised
generate_normal_report_data(in) ==
    IF ~in.columns THEN Raise("KeyError")
    ELSE
    LET f == filter_report(in.table)
    IN  IF f.kind = "raise" THEN f
        ELSE IF f.val = <<>> \/ nunique(f.val, "contig") = 0 THEN Raise("ValueError")
        ELSE IF ~in.fasta THEN Raise("FileNotFoundError")
        ELSE IF nunique(f.val, "contig") = 0 \/ nunique(f.val, "scomname") = 0
             THEN Raise("ValueError")
        ELSE Ok([plotted |-> TRUE, rows |-> f.val])

\* lines 856-870: the decoding of the error report, without thresholds
decode_unfiltered(in) ==
    IF ~in.columns THEN Raise("KeyError")
    ELSE
    LET s1 == split_expand(Column(in.table, "qseqid"), "_length_")
    IN  IF s1.width # 2 THEN Raise("ValueError")
        ELSE
        LET temp1 == [i \in 1..Len(in.table) |-> s1.cells[i][2]]
            s2 == split_expand(temp1, "_cov_")
        IN  IF s2.width # 2 THEN Raise("ValueError")
            ELSE IF \E i \in 1..Len(in.table) : to_numeric_raises(s2.cells[i][2])
            THEN Raise("ValueError")
            ELSE Ok([i \in 1..Len(in.table) |->
                        WithoutQseqid(in.table[i], s1.cells[i][1],
                                      to_numeric_coerce(s2.cells[i][2]))])

\* lines 845-1108: every exception is caught inside; a failed decoding
\* leaves the placeholder image and no rows
generate_error_report_data_filtered(in) ==
    LET d == decode_unfiltered(in)
    IN  IF d.kind = "raise" THEN [plotted |-> FALSE, rows |-> <<>>]
        ELSE IF loc_thresholds(d.val) = <<>> THEN [plotted |-> FALSE, rows |-> <<>>]
        ELSE [plotted |-> TRUE, rows |-> loc_thresholds(d.val)]
generate_error_report_data(in) ==
    LET d == decode_unfiltered(in)
    IN  IF d.kind = "raise" THEN [plotted |-> FALSE, rows |-> <<>>]
        ELSE IF d.val = <<>> THEN [plotted |-> FALSE, rows |-> <<>>]
        ELSE [plotted |-> TRUE, rows |-> d.val]

\* lines 34-36 and 1155-1159: exit when the BLAST file is missing, else try
\* the normal report; an exception leads to one of the two except clauses
TryNormalReport ==
    /\ r_pc = "start"
    /\ IF ~r_input.exists
       THEN r_pc' = "exit1" /\ UNCHANGED <<r_file, r_writes>>
       ELSE LET d == generate_normal_report_data(r_input)
            IN  IF d.kind = "ok"
                THEN /\ r_file' = Report(FALSE, d.val)
                     /\ r_writes' = r_writes + 1
                     /\ r_pc' = "done"
                ELSE /\ r_pc' = IF d.val \in {"ValueError", "FileNotFoundError"}
                                THEN "except_value_or_file" ELSE "except_other"
                     /\ UNCHANGED <<r_file, r_writes>>
    /\ UNCHANGED <<r_input, notReportVars>>

\* lines 1160-1169: except (ValueError, FileNotFoundError)
WarningReport ==
    /\ r_pc = "except_value_or_file"
    /\ r_file' = Report(TRUE, generate_error_report_data(r_input))
    /\ r_writes' = r_writes + 1
    /\ r_pc' = "done"
    /\ UNCHANGED <<r_input, notReportVars>>

\* lines 1170-1179: except Exception
UnexpectedErrorReport ==
    /\ r_pc = "except_other"
    /\ r_file' = Report(TRUE, generate_error_report_data(r_input))
    /\ r_writes' = r_writes + 1
    /\ r_pc' = "done"
    /\ UNCHANGED <<r_input, notReportVars>>

----------------------------------------------------------------------------
(* bin/reverse_complement_contigs.py: get_reverse_contigs *)

\* int(text): an optional sign followed by digits; None raises TypeError
RECURSIVE int_digits(_, _)
int_digits(text, acc) ==
    IF text = <<>> THEN acc
    ELSE int_digits(Tail(text), 10 * acc + DigitValue(Head(text)))

int(text) ==
    IF text = NoneStr THEN Raise("TypeError")
    ELSE
    LET signed == text # <<>> /\ text[1] \in {"-", "+"}
        body == IF signed THEN Tail(text) ELSE text
    IN  IF body = <<>> \/ \E i \in 1..Len(body) : body[i] \notin Digits
        THEN Raise("ValueError")
        ELSE IF signed /\ text[1] = "-" THEN Ok(0 - int_digits(body, 0))
        ELSE Ok(int_digits(body, 0))

\* row[key] of a csv.DictReader row: the fields are named by the first line
\* of the file; a name not in that line raises KeyError, a field missing
\* from a short row is None
dict_get(fieldnames, row, key) ==
    IF \A i \in 1..Len(fieldnames) : fieldnames[i] # key THEN Raise("KeyError")
    ELSE LET i == CHOOSE k \in 1..Len(fieldnames) :
                      /\ fieldnames[k] = key
                      /\ \A j \in (k + 1)..Len(fieldnames) : fieldnames[j] # key
         IN  IF i <= Len(row) THEN Ok(row[i]) ELSE Ok(NoneStr)

\* the test of line 31 with >= in place of >
is_reverse_or_equal(sstart, send) == sstart >= send

\* line 31
is_reverse(sstart, send) == sstart > send

\* lines 25-32: the loop over the rows
RECURSIVE reverse_loop(_, _, _)
reverse_loop(fieldnames, rows, contigs) ==
    IF rows = <<>> THEN Ok(contigs)
    ELSE
    LET row == Head(rows)
        sstart_field == dict_get(fieldnames, row, <<"sstart">>)
        send_field == dict_get(fieldnames, row, <<"send">>)
        sstart == IF sstart_field.kind = "ok" THEN int(sstart_field.val) ELSE sstart_field
        send == IF send_field.kind = "ok" THEN int(send_field.val) ELSE send_field
        qseqid == dict_get(fieldnames, row, <<"qseqid">>)
    IN  IF sstart.kind = "raise" \/ send.kind = "raise"
        THEN reverse_loop(fieldnames, Tail(rows), contigs)
        ELSE IF ~is_reverse(sstart.val, send.val)
        THEN reverse_loop(fieldnames, Tail(rows), contigs)
        ELSE IF qseqid.kind = "raise" THEN qseqid
        ELSE reverse_loop(fieldnames, Tail(rows), contigs \cup {qseqid.val})

\* lines 21-33: the first line of the file gives the field names
get_reverse_contigs_names_supplied(lines) ==
    IF lines = <<>> THEN Ok({})
    ELSE IF \E i \in 1..Len(Head(lines)) : Head(lines)[i] = <<"sstart">>
    THEN reverse_loop(Head(lines), Tail(lines), {})
    ELSE reverse_loop(<<<<"qseqid">>, <<"sstart">>, <<"send">>>>, lines, {})
get_reverse_contigs(lines) ==
    IF lines = <<>> THEN Ok({})
    ELSE reverse_loop(Head(lines), Tail(lines), {})

\* BLAST files within the bounds, reduced to the columns the function reads
ColumnNames == <<<<"qseqid">>, <<"sstart">>, <<"send">>>>
ContigIds == {<<"NODE_1">>, <<"NODE_2">>}
CoordTexts == {<<"2">>, <<"1", "0">>, <<"-", "1">>, <<"2", ".", "0">>}

\* a data line: all three fields, or cut short
DataLines ==
    {<<q, a, b>> : q \in ContigIds, a \in CoordTexts, b \in CoordTexts}
        \cup {<<q, a>> : q \in ContigIds, a \in CoordTexts}
        \cup {<<q>> : q \in ContigIds}

\* header-bearing files and header-less files
OrientationBlastFiles ==
    {<<ColumnNames>> \o d : d \in SeqsUpTo(DataLines, MaxDataRows)}
        \cup SeqsUpTo(DataLines, MaxDataRows)

----------------------------------------------------------------------------
(* bin/reverse_complement_contigs.py: reverse_complement, process_fasta *)

\* A string is the sequence of its characters.

\* str.maketrans("ACGTacgtNn", "TGCAtgcaNn")
comp_upper_only ==
    [from |-> <<"A", "C", "G", "T", "a", "c", "g", "t", "N", "n">>,
     to   |-> <<"T", "G", "C", "A", "T", "G", "C", "A", "N", "N">>]
comp ==
    [from |-> <<"A", "C", "G", "T", "a", "c", "g", "t", "N", "n">>,
     to   |-> <<"T", "G", "C", "A", "t", "g", "c", "a", "N", "n">>]

\* str.translate: a character the table does not hold is kept
translate(seq, table) ==
    [i \in 1..Len(seq) |->
        IF \E j \in 1..Len(table.from) : table.from[j] = seq[i]
        THEN table.to[CHOOSE j \in 1..Len(table.from) : table.from[j] = seq[i]]
        ELSE seq[i]]

\* seq[::-1]
reversed(seq) == [i \in 1..Len(seq) |-> seq[Len(seq) + 1 - i]]

reverse_complement_not_reversed(seq) == translate(seq, comp)
reverse_complement(seq) == reversed(translate(seq, comp))

\* the characters str.split() and str.strip() take for whitespace
IsSpace(c) == c \in {" ", "\t"}

\* header.split()[0]: the first run of characters that are not whitespace
first_word(text) ==
    LET starts == {i \in 1..Len(text) : ~IsSpace(text[i])}
        from == CHOOSE i \in starts : \A j \in starts : i <= j
        stops == {i \in from..Len(text) : IsSpace(text[i])}
        to == IF stops = {} THEN Len(text)
              ELSE (CHOOSE i \in stops : \A j \in stops : i <= j) - 1
    IN SubSeq(text, from, to)

\* line.strip()
strip(text) ==
    LET kept == {i \in 1..Len(text) : ~IsSpace(text[i])}
    IN IF kept = {} THEN <<>>
       ELSE SubSeq(text, CHOOSE i \in kept : \A j \in kept : i <= j,
                         CHOOSE i \in kept : \A j \in kept : j <= i)

\* "".join(seq_lines)
RECURSIVE join(_)
join(seq_lines) ==
    IF seq_lines = <<>> THEN <<>> ELSE Head(seq_lines) \o join(Tail(seq_lines))

\* the width of a written sequence line
LINE_WIDTH == 80

\* [seq[i:i+80] for i in range(0, len(seq), 80)]
chunks_through_end(seq) ==
    [k \in 1..((Len(seq) \div LINE_WIDTH) + 1) |->
        SubSeq(seq, LINE_WIDTH * (k - 1) + 1,
               IF LINE_WIDTH * k <= Len(seq) THEN LINE_WIDTH * k ELSE Len(seq))]
chunks(seq) ==
    [k \in 1..((Len(seq) + LINE_WIDTH - 1) \div LINE_WIDTH) |->
        SubSeq(seq, LINE_WIDTH * (k - 1) + 1,
               IF LINE_WIDTH * k <= Len(seq) THEN LINE_WIDTH * k ELSE Len(seq))]

SUFFIX == <<"_reverse_complement">>

\* the local variable header before the first header line: None
NoHeader == <<>>

\* new_header of write_record
new_header_keeps_description(header, reverse_set) ==
    IF SubSeq(first_word(header), 2, Len(first_word(header))) \in reverse_set
    THEN header \o SUFFIX
    ELSE header
new_header(header, reverse_set) ==
    LET fasta_id == SubSeq(first_word(header), 2, Len(first_word(header)))
    IN IF fasta_id \in reverse_set THEN <<">">> \o fasta_id \o SUFFIX ELSE header

\* write_record: the output file after the call
write_record_keeps_wrapping(out, header, seq_lines, reverse_set) ==
    IF header = NoHeader THEN out
    ELSE LET fasta_id == SubSeq(first_word(header), 2, Len(first_word(header)))
         IN IF fasta_id \in reverse_set
            THEN (out \o <<new_header(header, reverse_set)>>)
                     \o chunks(reverse_complement(join(seq_lines)))
            ELSE (out \o <<new_header(header, reverse_set)>>) \o seq_lines
write_record(out, header, seq_lines, reverse_set) ==
    IF header = NoHeader THEN out
    ELSE LET fasta_id == SubSeq(first_word(header), 2, Len(first_word(header)))
             seq == IF fasta_id \in reverse_set
                    THEN reverse_complement(join(seq_lines))
                    ELSE join(seq_lines)
         IN (out \o <<new_header(header, reverse_set)>>) \o chunks(seq)

\* line.startswith(">")
IsHeaderLine(line) == line # <<>> /\ line[1] = ">"

\* the input domain: header lines with and without a description, and
\* sequence lines that are blank, short, exactly one line wide and longer;
\* LongLine(81) is LongLine(80) followed by LongLine(1), so that one sequence
\* comes wrapped in two ways
LongLine(n) == [i \in 1..n |-> <<"C", "T", "a", "g", "n">>[(i % 5) + 1]]
HeaderLines == {<<">", "a">>, <<">", "b", " ", "d">>}
SequenceLines == {<<>>, <<"A", "c", "G", "t", "N", "x">>, LongLine(1),
                  LongLine(LINE_WIDTH), LongLine(LINE_WIDTH + 1)}
FastaFiles == SeqsUpTo(HeaderLines \cup SequenceLines, MaxFastaLines)
ReverseSets == {{<<"a">>}, {<<"b">>}}
Sequences == SeqsUpTo({"A", "C", "G", "T", "N", "a", "c", "g", "t", "n"}, MaxSeqLen)

----------------------------------------------------------------------------
(* bin/blast_summary.py: summarize_blast *)

columns == {"qseqid", "sseqid", "evalue", "bitscore", "pident", "qlen", "qstart",
            "qend", "sstart", "send", "taxid", "scomname", "length"}
numeric_columns == {"evalue", "bitscore", "pident", "qlen", "qstart", "qend",
                    "sstart", "send", "taxid", "length"}

\* fields that pd.read_csv reads as missing (among its default markers)
NaValues == {<<>>, <<"N/A">>, <<"NA">>, <<"nan">>}

\* pd.read_csv on one field; a missing cell is held as the empty text, which
\* no present cell can be
read_csv_cell(text) == IF text \in NaValues THEN <<>> ELSE text
isna(cell) == cell = <<>>

\* Series.min()
RECURSIVE SeriesMin(_)
SeriesMin(vals) ==
    IF Len(vals) = 1 THEN vals[1]
    ELSE LET m == SeriesMin(Tail(vals)) IN IF vals[1] <= m THEN vals[1] ELSE m

\* the table after the conversion loop and dropna(subset=numeric_columns)
valid_numerics(lines) ==
    LET blast_df == [i \in 1..Len(lines) |->
                        [c \in columns |-> read_csv_cell(lines[i][c])]]
        converted == [i \in 1..Len(lines) |->
                        [c \in columns |->
                            IF c \in numeric_columns
                            THEN to_numeric_coerce(blast_df[i][c])
                            ELSE blast_df[i][c]]]
    IN SelectSeq(converted, LAMBDA r : \A c \in numeric_columns : ~r[c].nan)

\* groupby([...]) leaves out the rows with a missing key (dropna=True)
groupby(rows) ==
    SelectSeq(rows, LAMBDA r : ~isna(r.qseqid) /\ ~isna(r.scomname))

\* the summary table, as the set of its rows; medians are doubled
summarize_blast(lines) ==
    LET rows == groupby(valid_numerics(lines))
        keys == {<<rows[i].qseqid, rows[i].taxid.v, rows[i].scomname>> : i \in 1..Len(rows)}
        group(key) == SelectSeq(rows, LAMBDA r : <<r.qseqid, r.taxid.v, r.scomname>> = key)
        values(key, col) == [i \in 1..Len(group(key)) |-> group(key)[i][col].v]
    IN {[qseqid |-> key[1], taxid |-> key[2], scomname |-> key[3],
         count |-> Len(values(key, "taxid")),
         min_pident |-> SeriesMin(values(key, "pident")),
         max_pident |-> SeriesMax(values(key, "pident")),
         median_pident |-> median2(values(key, "pident")),
         min_length |-> SeriesMin(values(key, "length")),
         max_length |-> SeriesMax(values(key, "length")),
         median_length |-> median2(values(key, "length")),
         min_bitscore |-> SeriesMin(values(key, "bitscore")),
         max_bitscore |-> SeriesMax(values(key, "bitscore")),
         median_bitscore |-> median2(values(key, "bitscore"))] : key \in keys}

\* the input domain: hits of one contig that differ in taxon, label (one of
\* them the "N/A" BLAST prints without a taxonomy database), identity,
\* length and bit score, a hit with an unparsable identity, and a header line
SummaryHit(taxid, scomname, pident, length, bitscore) ==
    [qseqid |-> <<"q1">>, sseqid |-> <<"s1">>, evalue |-> <<"0">>,
     bitscore |-> bitscore, pident |-> pident, qlen |-> <<"3", "0", "0">>,
     qstart |-> <<"1">>, qend |-> <<"9">>, sstart |-> <<"1">>, send |-> <<"9">>,
     taxid |-> taxid, scomname |-> scomname, length |-> length]
SummaryHeaderLine == [c \in columns |-> <<c>>]
SummaryLines ==
    {SummaryHit(t, n, m[1], m[2], m[3]) :
        t \in {<<"1">>, <<"2">>}, n \in {<<"CVA6">>, <<"N/A">>},
        m \in {<< <<"8", "9">>, <<"7">>, <<"3", "9", "9">> >>,
               << <<"9", "5">>, <<"9">>, <<"4", "0", "0">> >>}}
    \cup {SummaryHit(<<"1">>, <<"CVA6">>, <<"x">>, <<"9">>, <<"4", "0", "0">>),
          SummaryHeaderLine}
SummaryFiles == SeqsUpTo(SummaryLines, MaxSummaryLines) \ {<<>>}

\* the parts of the state a specification does not use
FastaIdle ==
    /\ p_fasta = <<>>
    /\ p_reverse = {}
    /\ p_pos = 0
    /\ p_header = NoHeader
    /\ p_seq_lines = <<>>
    /\ p_out = <<>>
    /\ p_pc = "loop"

RevcompIdle ==
    /\ k_seq = <<>>
    /\ k_once = Pending
    /\ k_twice = Pending

SummaryIdle ==
    /\ b_file = <<>>
    /\ b_out = Pending

CliIdle ==
    /\ a_argv = {}
    /\ a_pc = "parsed"

SuggestIdle ==
    /\ s_df = [rows |-> <<>>, columns |-> AllColumns]
    /\ s_args = [min_rows |-> 1, min_identity |-> 90, min_bitscore |-> 400]
    /\ s_out = Pending

ClassifyIdle ==
    /\ c_blast = [exists |-> FALSE, table |-> <<>>]
    /\ c_last = 0
    /\ c_pc = [r \in Runs |-> "idle"]
    /\ c_genotype = [r \in Runs |-> ""]
    /\ c_header = [r \in Runs |-> FALSE]
    /\ c_out = [exists |-> FALSE, lines |-> <<>>]

ReverseIdle ==
    /\ v_blast = <<>>
    /\ v_out = Pending

ReportIdle ==
    /\ r_input = [exists |-> FALSE, columns |-> FALSE, table |-> <<>>, fasta |-> FALSE]
    /\ r_pc = "start"
    /\ r_file = NoReport
    /\ r_writes = 0

FilterIdle ==
    /\ f_table = <<>>
    /\ f_classify = Pending
    /\ f_report = Pending

ClassifyInit ==
    /\ FastaIdle
    /\ RevcompIdle
    /\ SummaryIdle
    /\ CliIdle
    /\ ReverseIdle
    /\ SuggestIdle
    /\ FilterIdle
    /\ ReportIdle
    /\ ClassifyIdle

ClassifyNext ==
    \E r \in Runs : ReadAndClassify(r) \/ CheckOutput(r) \/ AppendRow(r)

SpecClassify == ClassifyInit /\ [][ClassifyNext]_vars

----------------------------------------------------------------------------
(* Invocations of genotype_prediction.py that overlap in time: each is a
   process of its own, and a run may start while another is under way *)

OverlapNext ==
    \E r \in Runs : ReadAndClassifyAnyTime(r) \/ CheckOutput(r) \/ AppendRow(r)

SpecOverlap == ClassifyInit /\ [][OverlapNext]_vars

----------------------------------------------------------------------------
(* Calls of suggest_genotype on every table within the bounds *)

SuggestDfs ==
    [rows : SeqsUpTo(SuggestRow, MaxRows),
     columns : {AllColumns, AllColumns \ {"scomname"}}]

SuggestInit ==
    /\ FastaIdle
    /\ RevcompIdle
    /\ SummaryIdle
    /\ CliIdle
    /\ ReverseIdle
    /\ FilterIdle
    /\ ReportIdle
    /\ ClassifyIdle
    /\ s_df \in SuggestDfs
    /\ s_args \in [min_rows : MinRowsVals, min_identity : MinIdentityVals,
                   min_bitscore : MinBitscoreVals]
    /\ s_out = Pending

CallSuggest ==
    /\ s_out = Pending
    /\ s_out' = suggest_genotype(s_df, s_args.min_rows, s_args.min_identity,
                                 s_args.min_bitscore)
    /\ UNCHANGED <<s_df, s_args, notSuggestVars>>

SpecSuggest == SuggestInit /\ [][CallSuggest]_vars

----------------------------------------------------------------------------
(* The two quality filters applied to every hit table within the bounds *)

FilterInit ==
    /\ FastaIdle
    /\ RevcompIdle
    /\ SummaryIdle
    /\ CliIdle
    /\ ReverseIdle
    /\ SuggestIdle
    /\ ReportIdle
    /\ ClassifyIdle
    /\ f_table \in HitTables
    /\ f_classify = Pending
    /\ f_report = Pending

ApplyFilterClassify ==
    /\ f_classify = Pending
    /\ f_classify' = filter_classify(f_table)
    /\ UNCHANGED <<f_table, f_report, notFilterVars>>

ApplyFilterReport ==
    /\ f_report = Pending
    /\ f_report' = filter_report(f_table)
    /\ UNCHANGED <<f_table, f_classify, notFilterVars>>

FilterNext == ApplyFilterClassify \/ ApplyFilterReport

SpecFilter == FilterInit /\ [][FilterNext]_vars

----------------------------------------------------------------------------
(* The report generator run on every input within the bounds *)

ReportInit ==
    /\ FastaIdle
    /\ RevcompIdle
    /\ SummaryIdle
    /\ CliIdle
    /\ ReverseIdle
    /\ SuggestIdle
    /\ FilterIdle
    /\ ClassifyIdle
    /\ r_input \in ReportInputs
    /\ r_pc = "start"
    /\ r_file = NoReport
    /\ r_writes = 0

ReportNext == TryNormalReport \/ WarningReport \/ UnexpectedErrorReport

SpecReport == ReportInit /\ [][ReportNext]_vars

----------------------------------------------------------------------------
(* get_reverse_contigs called on every BLAST file within the bounds *)

ReverseInit ==
    /\ FastaIdle
    /\ RevcompIdle
    /\ SummaryIdle
    /\ CliIdle
    /\ SuggestIdle
    /\ FilterIdle
    /\ ClassifyIdle
    /\ ReportIdle
    /\ v_blast \in OrientationBlastFiles
    /\ v_out = Pending

CallGetReverseContigs ==
    /\ v_out = Pending
    /\ v_out' = get_reverse_contigs(v_blast)
    /\ UNCHANGED <<v_blast, notReverseVars>>

SpecReverse == ReverseInit /\ [][CallGetReverseContigs]_vars

----------------------------------------------------------------------------
(* process_fasta run line by line on every FASTA file within the bounds *)

FastaInit ==
    /\ SuggestIdle
    /\ FilterIdle
    /\ ClassifyIdle
    /\ ReportIdle
    /\ ReverseIdle
    /\ RevcompIdle
    /\ SummaryIdle
    /\ CliIdle
    /\ p_fasta \in FastaFiles
    /\ p_reverse \in ReverseSets
    /\ p_pos = 0
    /\ p_header = NoHeader
    /\ p_seq_lines = <<>>
    /\ p_out = <<>>
    /\ p_pc = "loop"

\* one turn of "for line in fin"; a line is held without its newline, which
\* line.rstrip("\n") removes
ReadLine ==
    /\ p_pc = "loop"
    /\ p_pos < Len(p_fasta)
    /\ LET line == p_fasta[p_pos + 1]
       IN IF IsHeaderLine(line)
          THEN /\ p_out' = write_record(p_out, p_header, p_seq_lines, p_reverse)
               /\ p_header' = line
               /\ p_seq_lines' = <<>>
          ELSE /\ p_seq_lines' = IF line # <<>>
                                 THEN Append(p_seq_lines, strip(line))
                                 ELSE p_seq_lines
               /\ UNCHANGED <<p_out, p_header>>
    /\ p_pos' = p_pos + 1
    /\ UNCHANGED <<p_fasta, p_reverse, p_pc, notFastaVars>>

\* the call of write_record after the loop
EndOfFile_without_last_record ==
    /\ p_pc = "loop"
    /\ p_pos = Len(p_fasta)
    /\ p_pc' = "done"
    /\ UNCHANGED <<p_fasta, p_reverse, p_pos, p_header, p_seq_lines, p_out, notFastaVars>>
EndOfFile ==
    /\ p_pc = "loop"
    /\ p_pos = Len(p_fasta)
    /\ p_out' = write_record(p_out, p_header, p_seq_lines, p_reverse)
    /\ p_pc' = "done"
    /\ UNCHANGED <<p_fasta, p_reverse, p_pos, p_header, p_seq_lines, notFastaVars>>

FastaNext == ReadLine \/ EndOfFile

SpecFasta == FastaInit /\ [][FastaNext]_vars

----------------------------------------------------------------------------
(* reverse_complement called once, and again on its own result *)

RevcompInit ==
    /\ SuggestIdle
    /\ FilterIdle
    /\ ClassifyIdle
    /\ ReportIdle
    /\ ReverseIdle
    /\ FastaIdle
    /\ SummaryIdle
    /\ CliIdle
    /\ k_seq \in Sequences
    /\ k_once = Pending
    /\ k_twice = Pending

CallOnce ==
    /\ k_once.kind = "pending"
    /\ k_once' = Ok(reverse_complement(k_seq))
    /\ UNCHANGED <<k_seq, k_twice, notRevcompVars>>

CallTwice ==
    /\ k_once.kind = "ok"
    /\ k_twice.kind = "pending"
    /\ k_twice' = Ok(reverse_complement(k_once.val))
    /\ UNCHANGED <<k_seq, k_once, notRevcompVars>>

RevcompNext == CallOnce \/ CallTwice

SpecRevcomp == RevcompInit /\ [][RevcompNext]_vars

----------------------------------------------------------------------------
(* summarize_blast called on every BLAST file within the bounds *)

SummaryInit ==
    /\ SuggestIdle
    /\ FilterIdle
    /\ ClassifyIdle
    /\ ReportIdle
    /\ ReverseIdle
    /\ FastaIdle
    /\ RevcompIdle
    /\ CliIdle
    /\ b_file \in SummaryFiles
    /\ b_out = Pending

CallSummarizeBlast ==
    /\ b_out.kind = "pending"
    /\ b_out' = Ok(summarize_blast(b_file))
    /\ UNCHANGED <<b_file, notSummaryVars>>

SpecSummary == SummaryInit /\ [][CallSummarizeBlast]_vars

----------------------------------------------------------------------------
(* One invocation of genotype_prediction.py from its command line on *)

\* the options add_argument declares (lines 48-56)
DeclaredOptions == {"--ticket", "--blast-file", "--output", "--suggest-min-rows",
                    "--suggest-min-identity", "--suggest-min-bitscore"}

\* the command lines: the two required options, and with them an option
\* asking for no suggestion, which the parser does not declare
CommandLines == {{"--ticket", "--blast-file"},
                 {"--ticket", "--blast-file", "--no-suggestion"}}

CliInit ==
    /\ SuggestIdle
    /\ FilterIdle
    /\ ClassifyIdle
    /\ ReportIdle
    /\ ReverseIdle
    /\ FastaIdle
    /\ RevcompIdle
    /\ SummaryIdle
    /\ a_argv \in CommandLines
    /\ a_pc = "start"

\* line 57: parse_args() ends the process with status 2 on an option that
\* is not declared
ParseArgs ==
    /\ a_pc = "start"
    /\ a_pc' = IF a_argv \subseteq DeclaredOptions THEN "parsed" ELSE "exit2"
    /\ UNCHANGED <<a_argv, suggestVars, filterVars, classifyVars, reportVars,
                   reverseVars, fastaVars, revcompVars, summaryVars>>

\* lines 59-96 follow a successful parse; the invocations of one behaviour
\* are given the same command line
CliNext ==
    \/ ParseArgs
    \/ a_pc = "parsed" /\ \E r \in Runs : ReadAndClassify(r)
    \/ a_pc = "parsed" /\ \E r \in Runs : CheckOutput(r)
    \/ a_pc = "parsed" /\ \E r \in Runs : AppendRow(r)

SpecCli == CliInit /\ [][CliNext]_vars

----------------------------------------------------------------------------
(* Claims about suggest_genotype *)

\* the k-th smallest of vals, by counting
kth_smallest(vals, k) ==
    CHOOSE v \in {vals[i] : i \in 1..Len(vals)} :
        /\ Cardinality({i \in 1..Len(vals) : vals[i] < v}) < k
        /\ Cardinality({i \in 1..Len(vals) : vals[i] <= v}) >= k

\* twice the median of vals: the middle value, or the sum of the two
\* central values
central2(vals) ==
    LET n == Len(vals)
    IN  IF n % 2 = 1 THEN 2 * kth_smallest(vals, (n + 1) \div 2)
        ELSE kth_smallest(vals, n \div 2) + kth_smallest(vals, n \div 2 + 1)

\* the first row holding the global maximum of col
top_row(rows, col) ==
    CHOOSE i \in 1..Len(rows) :
        /\ \A j \in 1..Len(rows) : rows[j][col] <= rows[i][col]
        /\ \A j \in 1..(i - 1) : rows[j][col] < rows[i][col]

label_values(rows, l, col) ==
    LET idx == {i \in 1..Len(rows) : rows[i].scomname = l}
        pos(i) == Cardinality({j \in idx : j <= i})
    IN  [k \in 1..Cardinality(idx) |-> rows[CHOOSE i \in idx : pos(i) = k][col]]

label_rank(l) == CHOOSE k \in 1..Len(LabelOrder) : LabelOrder[k] = l

\* the label with the highest per-label median of col (the first such label
\* in ascending label order)
top_median_label(rows, col) ==
    LET present == {rows[i].scomname : i \in 1..Len(rows)}
        med(l) == central2(label_values(rows, l, col))
    IN  CHOOSE l \in present :
            /\ \A m \in present : med(m) <= med(l)
            /\ \A m \in present : label_rank(m) < label_rank(l) => med(m) < med(l)

six_conditions(rows, a) ==
    LET top == rows[top_row(rows, "pident")]
        topb == rows[top_row(rows, "bitscore")]
    IN  /\ top.scomname = topb.scomname
        /\ Cardinality({i \in 1..Len(rows) : rows[i].scomname = top.scomname})
               >= a.min_rows
        /\ top.pident >= a.min_identity
        /\ topb.bitscore >= a.min_bitscore
        /\ top_median_label(rows, "pident") = top.scomname
        /\ top_median_label(rows, "bitscore") = top.scomname

\* C1: on a non-empty table with all columns, suggest_genotype returns the
\* label of the row with the maximum percent identity exactly when the six
\* conditions hold, and the manual-review sentinel in every other case.
C1_SuggestIffSixConditions ==
    (s_out.kind # "pending" /\ s_df.rows # <<>> /\ s_df.columns = AllColumns) =>
        LET label == s_df.rows[top_row(s_df.rows, "pident")].scomname
        IN  IF six_conditions(s_df.rows, s_args)
            THEN s_out = Ok(label)
            ELSE s_out = Ok(MANUAL)

C1_Witness ==
    /\ s_out.kind = "ok"
    /\ s_out.val \in Labels
    /\ Len(s_df.rows) = 3
    /\ \E i, j \in 1..3 : s_df.rows[i].scomname # s_df.rows[j].scomname

\* C2: a failure inside suggest_genotype (empty table, missing label column)
\* is turned into the manual-review sentinel; no exception reaches the caller.
C2_FailureBecomesSentinel ==
    s_out.kind # "pending" =>
        /\ s_out.kind = "ok"
        /\ (s_df.rows = <<>> \/ "scomname" \notin s_df.columns) => s_out = Ok(MANUAL)

C2_Witness ==
    /\ s_out = Ok(MANUAL)
    /\ "scomname" \notin s_df.columns
    /\ s_df.rows # <<>>

----------------------------------------------------------------------------
(* Claims about the quality filter *)

occurrences(q, tok) == Cardinality({i \in 1..Len(q) : q[i] = tok})
position(q, tok) == CHOOSE i \in 1..Len(q) : q[i] = tok

\* the query id reads <name>_length_<len>_cov_<coverage>
well_formed_id(q) ==
    /\ occurrences(q, "_length_") = 1
    /\ occurrences(q, "_cov_") = 1
    /\ position(q, "_length_") < position(q, "_cov_")

\* the text after "_cov_"
written_coverage(q) == SubSeq(q, position(q, "_cov_") + 1, Len(q))

\* the hit qualifies: query length above 200 and coverage above 50
qualifies(r) ==
    /\ r.qlen > 200
    /\ well_formed_id(r.qseqid)
    /\ IsNumeric(written_coverage(r.qseqid))
    /\ DecimalValue(written_coverage(r.qseqid)) > 50

hit_fields(r) ==
    [qlen |-> r.qlen, pident |-> r.pident, bitscore |-> r.bitscore,
     scomname |-> r.scomname]

hits_of(rows) == [i \in 1..Len(rows) |-> hit_fields(rows[i])]

----------------------------------------------------------------------------
(* Claims about the classification command *)

no_hit_qualifies(table) == \A i \in 1..Len(table) : ~qualifies(table[i])

\* number of "_cov_" after the single "_length_"
cov_after_length(q) ==
    Cardinality({i \in 1..Len(q) : q[i] = "_cov_" /\ i > position(q, "_length_")})

\* the two splits do not each give exactly two columns
decode_raises(table) ==
    LET ids == {table[i].qseqid : i \in 1..Len(table)}
        split1 == {q \in ids : occurrences(q, "_length_") = 1}
    IN  \/ \E q \in ids : occurrences(q, "_length_") > 1
        \/ split1 = {}
        \/ \E q \in split1 : cov_after_length(q) > 1
        \/ \A q \in split1 : cov_after_length(q) = 0

rows_of(r) ==
    Cardinality({k \in 1..Len(c_out.lines) :
                    c_out.lines[k].kind = "row" /\ c_out.lines[k].ticket = r})

Computed == {"computed", "checked", "done"}

C5_UndecodableRowRaises ==
    \A r \in Runs :
        (/\ c_last = r /\ c_pc[r] # "idle" /\ c_blast.exists
         /\ \E i \in 1..Len(c_blast.table) : ~well_formed_id(c_blast.table[i].qseqid))
            => c_pc[r] = "raised"

C8_MissingInputExitsWithoutWrite ==
    [][\A r \in Runs :
          /\ (c_pc[r] = "idle" /\ c_pc'[r] # "idle" /\ ~c_blast'.exists)
                => (c_pc'[r] = "exit1" /\ c_out' = c_out)
          /\ c_pc[r] = "exit1" => (c_pc'[r] = "exit1" /\ rows_of(r)' = 0)]_vars

C8_Witness ==
    /\ c_last = 2
    /\ c_pc[2] = "exit1"
    /\ ~c_blast.exists
    /\ c_out.exists
    /\ Len(c_out.lines) = 2

\* runs in ascending order
ascending(S) ==
    [k \in 1..Cardinality(S) |-> CHOOSE r \in S : Cardinality({q \in S : q <= r}) = k]

\* C9 as stated: once n >= 1 sequential runs with existing inputs have
\* ended, the file is one header line followed by their n rows in run order.
C9_HeaderThenRowPerRun ==
    LET ran == {r \in Runs : c_pc[r] \notin {"idle", "exit1"}}
    IN  (ran # {} /\ \A r \in ran : c_pc[r] \in Terminated) =>
            /\ c_out.exists
            /\ Len(c_out.lines) = 1 + Cardinality(ran)
            /\ c_out.lines[1] = HEADER
            /\ \A k \in 1..Cardinality(ran) :
                  /\ c_out.lines[k + 1].kind = "row"
                  /\ c_out.lines[k + 1].ticket = ascending(ran)[k]

\* C9 amended: the file exists exactly when some run has completed, and is
\* then one header line followed by the rows of the completed runs, one
\* each, in run order.
C9_HeaderThenRowPerCompletedRun ==
    LET completed == {r \in Runs : c_pc[r] = "done"}
    IN  /\ c_out.exists <=> completed # {}
        /\ completed = {} => c_out.lines = <<>>
        /\ completed # {} =>
              /\ Len(c_out.lines) = 1 + Cardinality(completed)
              /\ c_out.lines[1] = HEADER
              /\ \A k \in 1..Cardinality(completed) :
                    c_out.lines[k + 1]
                        = OutRow(ascending(completed)[k],
                                 c_genotype[ascending(completed)[k]])

C9_Witness ==
    /\ c_pc[1] = "done" /\ c_pc[2] = "done"
    /\ Len(c_out.lines) = 3

----------------------------------------------------------------------------
(* Claims about the report generator *)

\* C6: a run of the report generator on a table holding a query id that
\* does not decode never ends in the fallback report carrying the
\* "no contigs met the criteria" flag.
C6_DecodeFailureNotFallback ==
    (/\ r_pc = "done" /\ r_input.columns
     /\ \E i \in 1..Len(r_input.table) : ~well_formed_id(r_input.table[i].qseqid))
        => ~(r_file.exists /\ r_file.is_error_report)

----------------------------------------------------------------------------
(* Claims about get_reverse_contigs *)

\* the hit rows of the file: the lines after the line of column names
hit_rows == [k \in 1..(Len(v_blast) - 1) |-> v_blast[k + 1]]

\* the row has a field of that name
has_field(row, name) ==
    \E i \in 1..Len(row) : i <= Len(v_blast[1]) /\ v_blast[1][i] = name
field(row, name) ==
    row[CHOOSE i \in 1..Len(row) : i <= Len(v_blast[1]) /\ v_blast[1][i] = name]

\* the text is an integer literal
is_integer_text(text) ==
    \E sign \in {<<>>, <<"-">>, <<"+">>}, n \in 1..Len(text) :
        /\ Len(text) = Len(sign) + n
        /\ SubSeq(text, 1, Len(sign)) = sign
        /\ \A i \in (Len(sign) + 1)..Len(text) : text[i] \in Digits
integer_value(text) ==
    IF text[1] = "-" THEN 0 - DecimalValue(Tail(text))
    ELSE IF text[1] = "+" THEN DecimalValue(Tail(text))
    ELSE DecimalValue(text)

reverse_hit(row) ==
    /\ has_field(row, <<"sstart">>) /\ has_field(row, <<"send">>)
    /\ is_integer_text(field(row, <<"sstart">>))
    /\ is_integer_text(field(row, <<"send">>))
    /\ integer_value(field(row, <<"sstart">>)) > integer_value(field(row, <<"send">>))

\* C10: get_reverse_contigs raises no error and returns exactly the query
\* ids that have a hit row whose sstart and send parse as integers with
\* sstart > send; the result is a subset of the query ids of the table.
C10_ReverseIdsExactlyReverseHits ==
    v_out.kind # "pending" =>
        /\ v_out.kind = "ok"
        /\ v_out.val \subseteq
              {field(hit_rows[k], <<"qseqid">>) :
                  k \in {j \in 1..Len(hit_rows) : has_field(hit_rows[j], <<"qseqid">>)}}
        /\ \A q \in ContigIds :
              q \in v_out.val <=>
                  \E k \in 1..Len(hit_rows) :
                      /\ has_field(hit_rows[k], <<"qseqid">>)
                      /\ field(hit_rows[k], <<"qseqid">>) = q
                      /\ reverse_hit(hit_rows[k])

C10_Witness ==
    /\ v_out.kind = "ok"
    /\ v_out.val = {<<"NODE_1">>}
    /\ Len(v_blast) = 3
    /\ v_blast[3] = <<<<"NODE_2">>, <<"2", ".", "0">>, <<"-", "1">>>>

----------------------------------------------------------------------------
(* Records of a FASTA file, as the claims about process_fasta speak of them *)

header_count(lines) == Cardinality({i \in 1..Len(lines) : IsHeaderLine(lines[i])})

\* where the k-th header line stands
header_at(lines, k) ==
    CHOOSE i \in 1..Len(lines) :
        /\ IsHeaderLine(lines[i])
        /\ Cardinality({j \in 1..i : IsHeaderLine(lines[j])}) = k

record_header(lines, k) == lines[header_at(lines, k)]

\* the lines between the k-th header line and the next one, or the end
record_lines(lines, k) ==
    SubSeq(lines, header_at(lines, k) + 1,
           IF k < header_count(lines) THEN header_at(lines, k + 1) - 1 ELSE Len(lines))

\* the sequence of a record: its lines without the line breaks
RECURSIVE sequence_text(_)
sequence_text(ls) ==
    IF ls = <<>> THEN <<>>
    ELSE sequence_text(SubSeq(ls, 1, Len(ls) - 1)) \o ls[Len(ls)]

\* the token after ">" up to the first whitespace
identifier(header) ==
    LET spaces == {i \in 1..Len(header) : IsSpace(header[i])}
        last == IF spaces = {} THEN Len(header)
                ELSE (CHOOSE i \in spaces : \A j \in spaces : i <= j) - 1
    IN SubSeq(header, 2, last)

complement(c) ==
    CASE c = "A" -> "T" [] c = "T" -> "A" [] c = "C" -> "G" [] c = "G" -> "C"
      [] c = "a" -> "t" [] c = "t" -> "a" [] c = "c" -> "g" [] c = "g" -> "c"
      [] OTHER -> c

\* every base complemented, then the whole reversed
complemented_reversed(seq) == [i \in 1..Len(seq) |-> complement(seq[Len(seq) + 1 - i])]

in_reverse_set(k) == identifier(record_header(p_fasta, k)) \in p_reverse

----------------------------------------------------------------------------
(* C11 *)

\* C11: when process_fasta has finished, the sequence of every output record
\* is the input record's sequence complemented base by base and reversed if
\* the record's identifier is in the reverse set, and the input record's
\* sequence unchanged otherwise.
C11_SequenceReversedIffInReverseSet ==
    p_pc = "done" =>
        \A k \in 1..header_count(p_fasta) :
            /\ k <= header_count(p_out)
            /\ LET seq_in == sequence_text(record_lines(p_fasta, k))
                   seq_out == sequence_text(record_lines(p_out, k))
               IN /\ in_reverse_set(k) => seq_out = complemented_reversed(seq_in)
                  /\ ~in_reverse_set(k) => seq_out = seq_in
                  /\ Len(seq_out) = Len(seq_in)

\* a finished run with a reversed record whose sequence differs from its
\* reverse complement and from its complement, and an untouched record
C11_Witness ==
    /\ p_pc = "done"
    /\ \E k, m \in 1..header_count(p_fasta) :
        /\ in_reverse_set(k)
        /\ ~in_reverse_set(m)
        /\ LET seq_in == sequence_text(record_lines(p_fasta, k))
           IN /\ Len(seq_in) > LINE_WIDTH
              /\ sequence_text(record_lines(p_out, k)) # seq_in
              /\ sequence_text(record_lines(p_out, k)) # reversed(seq_in)
        /\ sequence_text(record_lines(p_fasta, m)) # <<>>

----------------------------------------------------------------------------
(* C12 *)

\* C12 as stated: the header of a reversed record is the whole input header
\* line with the suffix appended, a description included; the header of any
\* other record is unchanged.
C12_HeaderLineSuffixed ==
    p_pc = "done" =>
        \A k \in 1..header_count(p_fasta) :
            /\ k <= header_count(p_out)
            /\ record_header(p_out, k) =
                  IF in_reverse_set(k)
                  THEN record_header(p_fasta, k) \o SUFFIX
                  ELSE record_header(p_fasta, k)

\* C12 amended: the header of a reversed record is ">", the identifier and
\* the suffix, so that a description after the identifier is dropped; the
\* header of any other record is the input header line unchanged.
C12_HeaderRebuiltFromIdentifier ==
    p_pc = "done" =>
        \A k \in 1..header_count(p_fasta) :
            /\ k <= header_count(p_out)
            /\ record_header(p_out, k) =
                  IF in_reverse_set(k)
                  THEN (<<">">> \o identifier(record_header(p_fasta, k))) \o SUFFIX
                  ELSE record_header(p_fasta, k)

\* a finished run with a reversed record whose header carries a description
\* and an untouched record
C12_Witness ==
    /\ p_pc = "done"
    /\ \E k, m \in 1..header_count(p_fasta) :
        /\ in_reverse_set(k)
        /\ \E i \in 1..Len(record_header(p_fasta, k)) : IsSpace(record_header(p_fasta, k)[i])
        /\ ~in_reverse_set(m)
        /\ record_header(p_out, m) = record_header(p_fasta, m)

----------------------------------------------------------------------------
(* C13 *)

\* C13: at every moment, in every record of the output file each sequence
\* line but the last has exactly 80 characters and the last has between 1
\* and 80; no sequence line is empty.
C13_LinesWrappedAtEighty ==
    \A k \in 1..header_count(p_out) :
        LET ls == record_lines(p_out, k)
        IN \A i \in 1..Len(ls) :
              /\ i < Len(ls) => Len(ls[i]) = 80
              /\ Len(ls[i]) >= 1
              /\ Len(ls[i]) <= 80

\* a finished run with a record written as two full lines and a last line
\* of one character
C13_Witness ==
    /\ p_pc = "done"
    /\ \E k \in 1..header_count(p_out) :
        /\ Len(record_lines(p_out, k)) = 3
        /\ Len(record_lines(p_out, k)[1]) = 80
        /\ Len(record_lines(p_out, k)[3]) = 1

----------------------------------------------------------------------------
(* C14 *)

\* C14: when process_fasta has finished, the output file holds exactly one
\* record per header line of the input, the k-th output record being the
\* k-th input record (its header the input header or the rebuilt one, its
\* sequence as long as the input's), the last record included.
C14_OneRecordPerHeaderInOrder ==
    p_pc = "done" =>
        /\ header_count(p_out) = header_count(p_fasta)
        /\ \A k \in 1..header_count(p_fasta) :
              /\ identifier(record_header(p_out, k)) \in
                    {identifier(record_header(p_fasta, k)),
                     identifier(record_header(p_fasta, k)) \o SUFFIX}
              /\ Len(sequence_text(record_lines(p_out, k)))
                    = Len(sequence_text(record_lines(p_fasta, k)))

\* a finished run on two records with different identifiers, the last one
\* with a sequence and ending at the end of the file
C14_Witness ==
    /\ p_pc = "done"
    /\ header_count(p_fasta) = 2
    /\ identifier(record_header(p_fasta, 1)) # identifier(record_header(p_fasta, 2))
    /\ record_lines(p_fasta, 2) # <<>>
    /\ sequence_text(record_lines(p_out, 2)) # <<>>

----------------------------------------------------------------------------
(* C15 *)

\* C15: for every sequence over A, C, G, T, N in either case, the reverse
\* complement of its reverse complement is the sequence itself.
C15_ReverseComplementInvolution ==
    k_twice.kind = "ok" => k_twice.val = k_seq

\* both calls made on a sequence of mixed case that its reverse complement
\* differs from
C15_Witness ==
    /\ k_twice.kind = "ok"
    /\ Len(k_seq) = MaxSeqLen
    /\ k_once.val # k_seq
    /\ \E i, j \in 1..Len(k_seq) : k_seq[i] \in {"a", "c", "g", "t", "n"} /\ k_seq[j] \in {"A", "C", "G", "T"}

----------------------------------------------------------------------------
(* C16 and C17 *)

\* the lines whose ten numeric fields all parse
numeric_field_parses(text) == text # <<>> /\ \A i \in 1..Len(text) : text[i] \in Digits
has_valid_numerics(line) == \A c \in numeric_columns : numeric_field_parses(line[c])
valid_lines == {i \in 1..Len(b_file) : has_valid_numerics(b_file[i])}
combination(i) ==
    <<b_file[i].qseqid, DecimalValue(b_file[i].taxid), b_file[i].scomname>>
lines_of_group(g) ==
    {i \in valid_lines : combination(i)[1] = g.qseqid /\ combination(i)[2] = g.taxid
                         /\ b_file[i].scomname = g.scomname}

RECURSIVE sum_of_counts(_)
sum_of_counts(groups) ==
    IF groups = {} THEN 0
    ELSE LET g == CHOOSE x \in groups : TRUE
         IN g.count + sum_of_counts(groups \ {g})

\* C16: the summary has one row per distinct (qseqid, taxid, scomname) among
\* the lines with valid numerics, each with the number of such lines as its
\* count, at least 1, and the counts add up to the number of lines with valid
\* numerics.
C16_GroupsCountValidRows ==
    b_out.kind = "ok" =>
        /\ \A i \in valid_lines : \E g \in b_out.val : i \in lines_of_group(g)
        /\ \A g \in b_out.val :
              /\ g.count = Cardinality(lines_of_group(g))
              /\ g.count >= 1
        /\ \A g, h \in b_out.val :
              (g.qseqid = h.qseqid /\ g.taxid = h.taxid /\ g.scomname = h.scomname) => g = h
        /\ sum_of_counts(b_out.val) = Cardinality(valid_lines)

\* the values of one column over the lines of a group, in file order
RECURSIVE values_of(_, _)
values_of(S, col) ==
    IF S = {} THEN <<>>
    ELSE LET i == CHOOSE x \in S : \A y \in S : x <= y
         IN <<DecimalValue(b_file[i][col])>> \o values_of(S \ {i}, col)

\* C17: every median of the summary is the middle value of its group for an
\* odd count and the mean of the two central values for an even count (kept
\* doubled), and lies between the group's minimum and maximum.
C17_MedianIsCentralValue ==
    b_out.kind = "ok" =>
        \A g \in b_out.val :
            LET S == lines_of_group(g)
            IN /\ g.median_pident = central2(values_of(S, "pident"))
               /\ g.median_length = central2(values_of(S, "length"))
               /\ g.median_bitscore = central2(values_of(S, "bitscore"))
               /\ 2 * g.min_pident <= g.median_pident /\ g.median_pident <= 2 * g.max_pident
               /\ 2 * g.min_length <= g.median_length /\ g.median_length <= 2 * g.max_length
               /\ 2 * g.min_bitscore <= g.median_bitscore
               /\ g.median_bitscore <= 2 * g.max_bitscore

\* a summary with a group of two lines whose median lies strictly between
\* its two values, and a group of one line
C17_Witness ==
    /\ b_out.kind = "ok"
    /\ \E g, h \in b_out.val :
          /\ g.count = 2
          /\ 2 * g.min_pident < g.median_pident
          /\ g.median_pident < 2 * g.max_pident
          /\ h.count = 1
          /\ h.median_length = 2 * h.min_length

----------------------------------------------------------------------------
(* C18 *)

\* the text the decoding takes for the coverage of a query id
coverage_text(q) ==
    IF occurrences(q, "_length_") = 1 /\ cov_after_length(q) = 1
    THEN SubSeq(q, (CHOOSE i \in 1..Len(q) :
                        q[i] = "_cov_" /\ i > position(q, "_length_")) + 1, Len(q))
    ELSE <<>>

\* the report's filter completes and keeps no hit: the table is read, every
\* id is decoded, every written coverage is a number, and no hit qualifies
filter_leaves_no_contig ==
    /\ r_input.exists
    /\ r_input.columns
    /\ ~decode_raises(r_input.table)
    /\ \A i \in 1..Len(r_input.table) :
          coverage_text(r_input.table[i].qseqid) = <<>>
          \/ IsNumeric(coverage_text(r_input.table[i].qseqid))
    /\ no_hit_qualifies(r_input.table)

\* C18: when the report's filter leaves no contig, the normal report is given
\* up with no report file written, and the run then ends having written the
\* report file exactly once, as the fallback report holding every hit of the
\* file with its decoded coverage and no threshold applied.
C18_EmptyFilterFallsBackOnce ==
    filter_leaves_no_contig =>
        /\ r_pc # "except_other"
        /\ r_pc \in {"start", "except_value_or_file"} => (r_writes = 0 /\ ~r_file.exists)
        /\ r_pc = "done" =>
              /\ r_writes = 1
              /\ r_file.exists
              /\ r_file.is_error_report
              /\ hits_of(r_file.rows) = hits_of(r_input.table)
              /\ \A i \in 1..Len(r_input.table) :
                    r_file.rows[i].coverage =
                        IF coverage_text(r_input.table[i].qseqid) = <<>> THEN NumNaN
                        ELSE Num(DecimalValue(coverage_text(r_input.table[i].qseqid)))

\* a finished run on a table of two hits, one of them long enough but with
\* coverage 50, none qualifying
C18_Witness ==
    /\ filter_leaves_no_contig
    /\ r_pc = "done"
    /\ Len(r_input.table) = 2
    /\ \E i \in 1..2 :
          /\ r_input.table[i].qlen > 200
          /\ IsNumeric(coverage_text(r_input.table[i].qseqid))
          /\ DecimalValue(coverage_text(r_input.table[i].qseqid)) = 50

----------------------------------------------------------------------------
(* C19 *)

\* the sentinel the specification names for a disabled suggestion
DISABLED == "suggestion disabled"

\* C19: an invocation that asks for no suggestion goes on past the parsing of
\* its command line, and whenever it has a genotype text, that text is the
\* "suggestion disabled" sentinel, whatever the hit table holds.
C19_DisabledReturnsSentinel ==
    ("--no-suggestion" \in a_argv /\ a_pc # "start") =>
        /\ a_pc = "parsed"
        /\ \A r \in Runs : c_pc[r] \in Computed => c_genotype[r] = DISABLED

----------------------------------------------------------------------------
(* C21 *)

\* the same rows in another order
reordered(rows, p) == [i \in 1..Len(rows) |-> rows[p[i]]]
orderings(rows) == {reordered(rows, p) : p \in Permutations(1..Len(rows))}

\* the call of the state made on another table
suggestion_for(rows) ==
    suggest_genotype([rows |-> rows, columns |-> s_df.columns],
                     s_args.min_rows, s_args.min_identity, s_args.min_bitscore)

\* C21 as stated: whatever the order of the rows, suggest_genotype returns
\* what it returned for the table of the call.
C21_OrderOfRowsIrrelevant ==
    (s_out.kind # "pending" /\ s_df.columns = AllColumns) =>
        \A rows \in orderings(s_df.rows) : suggestion_for(rows) = s_out

\* the rows holding the maximum of col all carry the same label
tied_rows_share_label(rows, col) ==
    \A i, j \in 1..Len(rows) :
        (/\ \A k \in 1..Len(rows) : rows[k][col] <= rows[i][col]
         /\ \A k \in 1..Len(rows) : rows[k][col] <= rows[j][col])
            => rows[i].scomname = rows[j].scomname

\* C21 amended: when the rows that share the maximum percent identity carry
\* one label and the rows that share the maximum bit score carry one label,
\* suggest_genotype returns the same label or sentinel for every order of the
\* rows.
C21_OrderIrrelevantWhenTiedRowsShareLabel ==
    (/\ s_out.kind # "pending"
     /\ s_df.columns = AllColumns
     /\ tied_rows_share_label(s_df.rows, "pident")
     /\ tied_rows_share_label(s_df.rows, "bitscore")) =>
        \A rows \in orderings(s_df.rows) : suggestion_for(rows) = s_out

\* a call that returned a label for a table of two labels in which two rows
\* of that label share the maximum percent identity and the maximum bit score
C21_Witness ==
    /\ s_out.kind = "ok"
    /\ s_out.val \in Labels
    /\ s_df.columns = AllColumns
    /\ Len(s_df.rows) = 3
    /\ tied_rows_share_label(s_df.rows, "pident")
    /\ tied_rows_share_label(s_df.rows, "bitscore")
    /\ \E i, j, k \in 1..3 :
          /\ i < j
          /\ s_df.rows[i] = s_df.rows[j]
          /\ s_df.rows[i].scomname = s_out.val
          /\ s_df.rows[k].scomname # s_out.val
          /\ s_df.rows[k].pident < s_df.rows[i].pident
          /\ s_df.rows[k].bitscore < s_df.rows[i].bitscore

----------------------------------------------------------------------------
(* C22 *)

\* what is written for the first n records when each record's sequence
\* stands on one line
RECURSIVE output_of_unwrapped(_)
output_of_unwrapped(n) ==
    IF n = 0 THEN <<>>
    ELSE write_record(output_of_unwrapped(n - 1), record_header(p_fasta, n),
                      <<sequence_text(record_lines(p_fasta, n))>>, p_reverse)

\* C22: the finished output is the output for the input that has the same
\* header lines and each record's concatenated sequence on a single line; it
\* is thus the same for all inputs with these headers and sequences, however
\* the sequences are wrapped and whatever blank lines they hold.
C22_OutputIndependentOfWrapping ==
    p_pc = "done" => p_out = output_of_unwrapped(header_count(p_fasta))

\* a finished run on a record of 81 characters given as a line of 80, a
\* blank line and a line of one character
C22_Witness ==
    /\ p_pc = "done"
    /\ \E k \in 1..header_count(p_fasta) :
          /\ record_lines(p_fasta, k) = <<LongLine(LINE_WIDTH), <<>>, LongLine(1)>>
          /\ sequence_text(record_lines(p_fasta, k)) = LongLine(LINE_WIDTH + 1)
          /\ Len(record_lines(p_out, k)) = 2

----------------------------------------------------------------------------
(* C23 *)

\* the line carries the key of the summary row g
has_key_of(i, g) ==
    /\ b_file[i].qseqid = g.qseqid
    /\ b_file[i].scomname = g.scomname
    /\ numeric_field_parses(b_file[i].taxid)
    /\ DecimalValue(b_file[i].taxid) = g.taxid

\* C23: a line whose ten numeric fields all parse is counted in a row of the
\* summary, and a line with a numeric field that does not parse, a header
\* line among them, is counted in none: every count is the number of lines
\* with the row's key whose numeric fields all parse.
C23_ExcludedIffNumericFieldFails ==
    b_out.kind = "ok" =>
        /\ \A i \in 1..Len(b_file) :
              has_valid_numerics(b_file[i]) => \E g \in b_out.val : has_key_of(i, g)
        /\ \A g \in b_out.val :
              g.count = Cardinality({i \in 1..Len(b_file) :
                                        has_key_of(i, g) /\ has_valid_numerics(b_file[i])})

----------------------------------------------------------------------------
(* C24 *)

\* C24: once both filters have been applied to a table, either both have
\* raised or both have completed, and then they have kept the same hits.
C24_FiltersAgree ==
    (f_classify.kind # "pending" /\ f_report.kind # "pending") =>
        /\ f_classify.kind = f_report.kind
        /\ f_classify.kind = "ok" => hits_of(f_classify.val) = hits_of(f_report.val)

----------------------------------------------------------------------------
(* C25 *)

\* C25: when runs on one output file that did not exist overlap, then once
\* no run is under way and some run has written, the file is one header line
\* followed by one row for each run that has written.
C25_OneHeaderUnderOverlap ==
    LET written == {r \in Runs : c_pc[r] = "done"}
    IN  (written # {} /\ \A r \in Runs : c_pc[r] \in Terminated \cup {"idle"}) =>
            /\ Len(c_out.lines) = 1 + Cardinality(written)
            /\ c_out.lines[1] = HEADER
            /\ \A k \in 2..Len(c_out.lines) : c_out.lines[k].kind = "row"
            /\ \A r \in written : rows_of(r) = 1

----------------------------------------------------------------------------
(* C26 *)

\* the file is of the header-less shape: its first line is a data row
header_less == v_blast # <<>> /\ v_blast[1] \in DataLines

\* C26: the first line of the file is taken for the column names and gives
\* no query id: every id returned stands in a later line; and for a file of
\* the header-less shape the returned set is empty.
C26_FirstLineIsColumnNames ==
    v_out.kind # "pending" =>
        /\ v_out.kind = "ok"
        /\ \A q \in v_out.val : \E k \in 2..Len(v_blast) : v_blast[k][1] = q
        /\ header_less => v_out.val = {}

\* a header-less file of two full rows, each with sstart 10 above send 2
C26_Witness ==
    /\ v_out.kind = "ok"
    /\ header_less
    /\ Len(v_blast) = 2
    /\ \A k \in 1..2 : /\ Len(v_blast[k]) = 3
                       /\ v_blast[k][2] = <<"1", "0">>
                       /\ v_blast[k][3] = <<"2">>
    /\ v_out.val = {}

====
